---------------------------- MODULE Spec2Model ----------------------------
(***************************************************************************)
(* A model of the pagination engine of azure_core                          *)
(* (sdk/core/azure_core/src/http/pager.rs): the page stream built by       *)
(* iter_from_callback on futures::stream::unfold, PageIterator, which      *)
(* re-exposes that stream, and ItemIterator, which flattens it through a   *)
(* cursor over the current page's items.                                   *)
(*                                                                         *)
(* One session is modelled: a consumer holding one iterator and calling    *)
(* poll_next on it any number of times.  Every poll_next is one atomic     *)
(* step (the function is synchronous between two returns).  The fetch      *)
(* callback and Page::into_items belong to the caller: what they return,   *)
(* and whether their futures are ready when polled, is chosen freely.      *)
(***************************************************************************)
EXTENDS Integers, Sequences, FiniteSets, TLC

(***************************************************************************)
(* Bounds of the model.                                                    *)
(***************************************************************************)
\* The callback's MaxCalls-th invocation ends the session (Done or Err).
MaxCalls == 3
\* The consumer polls at most MaxTail times after end-of-sequence.
MaxTail == 2

\* The item lists of the pages a callback may return: none, one and two
\* items, the two in either order.
PageItems == { << >>, << 1 >>, << 1, 2 >>, << 2, 1 >> }
\* The values continuations and fetch errors are drawn from.
Tokens == {"1", "2"}
Errors == {"boom"}
\* The error of an into_items that fails.
ExtractError == "bad_page"

(***************************************************************************)
(* Option<T>: None is the empty tuple, Some(x) the one-element tuple.      *)
(***************************************************************************)
None == << >>
Some(x) == << x >>

(***************************************************************************)
(* Pages.  A page either extracts to its list of items, or its into_items  *)
(* fails (and then it holds no items).                                     *)
(***************************************************************************)
Pages ==
    { [ok |-> TRUE, items |-> s] : s \in PageItems }
        \cup { [ok |-> FALSE, items |-> << >>] }

(***************************************************************************)
(* Result<PagerResult<P, N>, Error>, the output of the callback's future.  *)
(***************************************************************************)
OkMore(p, n) == [kind |-> "More", response |-> Some(p), next |-> Some(n), err |-> None]
OkDone(p) == [kind |-> "Done", response |-> Some(p), next |-> None, err |-> None]
FetchErr(e) == [kind |-> "Err", response |-> None, next |-> None, err |-> Some(e)]

\* What the callback's n-th invocation may resolve to.  The callback is the
\* caller's: any result is possible, but a session is finite, so that the
\* MaxCalls-th invocation (and any later one) reports Done or an error.
CallbackResults(n) ==
    (IF n < MaxCalls THEN { OkMore(p, t) : p \in Pages, t \in Tokens } ELSE {})
        \cup { OkDone(p) : p \in Pages }
        \cup { FetchErr(e) : e \in Errors }

(***************************************************************************)
(* enum State<T> { Init, More(T), Done }                                   *)
(***************************************************************************)
StateInit == [tag |-> "Init", c |-> None]
StateMore(c) == [tag |-> "More", c |-> Some(c)]
StateDone == [tag |-> "Done", c |-> None]

\* The argument of make_request: None from Init, Some(c) from More(c).
CallbackArgAlwaysNone(st) == None
CallbackArg(st) == IF st.tag = "Init" THEN None ELSE st.c

\* The state the closure hands back to unfold with the element.
NextStateRetriesAfterErr(result) ==
    CASE result.kind = "Err" -> StateInit
      [] result.kind = "More" -> StateMore(result.next[1])
      [] result.kind = "Done" -> StateDone
NextStateDropsContinuation(result) ==
    CASE result.kind = "Err" -> StateDone
      [] result.kind = "More" -> StateInit
      [] result.kind = "Done" -> StateDone
NextStateRestartsAfterDone(result) ==
    CASE result.kind = "Err" -> StateDone
      [] result.kind = "More" -> StateMore(result.next[1])
      [] result.kind = "Done" -> StateInit
NextState(result) ==
    CASE result.kind = "Err" -> StateDone
      [] result.kind = "More" -> StateMore(result.next[1])
      [] result.kind = "Done" -> StateDone

\* The element the closure yields: Err(e), or Ok(response) untouched.
StreamItem(result) ==
    IF result.kind = "Err"
    THEN << "Err", result.err[1] >>
    ELSE << "Ok", result.response[1] >>


(***************************************************************************)
(* The state of the session.                                               *)
(***************************************************************************)
VARIABLES
    iter,       \* the iterator the consumer holds: "items" or "pages"
    current,    \* ItemIterator.current: Option of the items left in the cursor
    ust,        \* unfold's own state: "Value", "Future" or "Empty" ("Gone": dropped)
    state,      \* the State held as unfold's value, or moved into its future
    calls,      \* history: the argument of every callback invocation, in order
    results,    \* history: the output of every resolved callback future, in order
    extracts,   \* history: how the one poll of each page's into_items ended
    out,        \* history: every element a poll_next returned as Ready(Some(_))
    last,       \* what the latest poll_next returned
    ended,      \* a poll_next has returned Ready(None)
    tail,       \* the number of poll_next calls made after that
    dropped,    \* the consumer has dropped the iterator
    raw,        \* from_stream: the elements the raw stream has yet to produce
    taken,      \* from_stream: history of the elements the raw stream produced
    converted,  \* into_pages: Option of what had been yielded and fetched at the call
    response,   \* from_response_header: the response it is given
    header_name,\* from_response_header: the header name it is given
    pager_result\* from_response_header: Option of the PagerResult it returned

vars ==
    << iter, current, ust, state, calls, results, extracts, out, last, ended, tail,
       dropped, raw, taken, converted, response, header_name, pager_result >>

\* What a session of an iterator leaves alone.
hvars == << response, header_name, pager_result >>

\* The iterator and its stream as one value, with the value poll_next returns.
Self ==
    [ current |-> current, ust |-> ust, state |-> state, calls |-> calls,
      results |-> results, extracts |-> extracts, raw |-> raw, taken |-> taken,
      ret |-> << "Start" >> ]

(***************************************************************************)
(* The stream of iter_from_callback: unfold over the closure.              *)
(*                                                                         *)
(* unfold keeps either the value handed back by the closure ("Value"), or  *)
(* the closure's future made from it ("Future"), or, once that future has  *)
(* returned None, nothing ("Empty": the value was moved into the future    *)
(* and the closure gave none back).  Its poll_next turns a value into the  *)
(* closure's future and polls that future in the same call; the future     *)
(* invokes make_request when first polled.  With neither a value nor a     *)
(* future, poll_next panics ("Unfold must not be polled after it returned  *)
(* `Poll::Ready(None)`"): the stream is not fused, and neither iterator    *)
(* fuses it.  The panic leaves unfold as it was, so that a consumer that   *)
(* catches it and polls again panics again.                                *)
(***************************************************************************)

\* The closure's future resolved to `result`: the element and the next state.
ResolveSwallowsError(s, result) ==
    IF result.kind = "Err"
    THEN [s EXCEPT !.results = Append(@, result), !.ust = "Empty",
                   !.state = StateDone, !.ret = << "None" >>]
    ELSE [s EXCEPT !.results = Append(@, result), !.ust = "Value",
                   !.state = NextState(result), !.ret = StreamItem(result)]
ResolveDropsTerminalPage(s, result) ==
    IF result.kind = "Done"
    THEN [s EXCEPT !.results = Append(@, result), !.ust = "Empty",
                   !.state = StateDone, !.ret = << "None" >>]
    ELSE [s EXCEPT !.results = Append(@, result), !.ust = "Value",
                   !.state = NextState(result), !.ret = StreamItem(result)]
\* A driver that invokes the callback for the next page as soon as a page
\* with a continuation arrives.
ResolvePrefetches(s, result) ==
    IF result.kind = "More"
    THEN [s EXCEPT !.results = Append(@, result), !.ust = "Future",
                   !.calls = Append(@, result.next),
                   !.state = NextState(result), !.ret = StreamItem(result)]
    ELSE [s EXCEPT !.results = Append(@, result), !.ust = "Value",
                   !.state = NextState(result), !.ret = StreamItem(result)]
Resolve(s, result) ==
    [s EXCEPT !.results = Append(@, result), !.ust = "Value",
              !.state = NextState(result), !.ret = StreamItem(result)]

\* The closure's future at its await: pending, or resolved to any result the
\* callback may give for this invocation.
PollFetch(s) ==
    { [s EXCEPT !.ret = << "Pending" >>] }
        \cup { Resolve(s, r) : r \in CallbackResults(Len(s.calls)) }

\* A stream that makes a new future at every poll, over one still pending.
UnfoldPollNextReinvokes(s) ==
    IF s.ust = "Empty"
    THEN { [s EXCEPT !.ret = << "Panic" >>] }
    ELSE IF s.ust = "Value" /\ s.state.tag = "Done"
    THEN { [s EXCEPT !.ust = "Empty", !.ret = << "None" >>] }
    ELSE IF Len(s.calls) < MaxCalls
    THEN PollFetch([s EXCEPT !.ust = "Future",
                             !.calls = Append(@, CallbackArg(s.state))])
    ELSE PollFetch(s)
\* A stream that answers None again and again once its state is Done.
UnfoldPollNextFused(s) ==
    IF s.state.tag = "Done" /\ s.ust # "Future"
    THEN { [s EXCEPT !.ust = "Empty", !.ret = << "None" >>] }
    ELSE IF s.ust = "Value"
    THEN PollFetch([s EXCEPT !.ust = "Future",
                             !.calls = Append(@, CallbackArg(s.state))])
    ELSE PollFetch(s)
\* Unfold::poll_next over the closure of iter_from_callback: the set of
\* outcomes of one poll.
UnfoldPollNext(s) ==
    IF s.ust = "Empty"
    THEN { [s EXCEPT !.ret = << "Panic" >>] }
    ELSE IF s.ust = "Value" /\ s.state.tag = "Done"
    THEN { [s EXCEPT !.ust = "Empty", !.ret = << "None" >>] }
    ELSE IF s.ust = "Value"
    THEN PollFetch([s EXCEPT !.ust = "Future",
                             !.calls = Append(@, CallbackArg(s.state))])
    ELSE PollFetch(s)

(***************************************************************************)
(* A raw stream handed to from_stream: it produces its elements one by     *)
(* one, each after any number of Pending polls, and then None.             *)
(***************************************************************************)
RawPollNext(s) ==
    { [s EXCEPT !.ret = << "Pending" >>] }
        \cup { IF s.raw = << >>
               THEN [s EXCEPT !.ret = << "None" >>]
               ELSE [s EXCEPT !.raw = Tail(@), !.taken = Append(@, Head(s.raw)),
                              !.ret = Head(s.raw)] }

\* The boxed stream of an iterator: the unfold of from_callback, or the raw
\* stream given to from_stream.
StreamPollNext(s) ==
    IF s.ust = "Raw" THEN RawPollNext(s) ELSE UnfoldPollNext(s)

(***************************************************************************)
(* ItemIterator::poll_next.                                                *)
(***************************************************************************)

\* The one poll of page.into_items(): ready with the items or the error, or
\* pending.
ExtractOutcomes(page) ==
    { << "Pending" >> }
        \cup { IF page.ok THEN << "Ok", page.items >> ELSE << "Err", ExtractError >> }

\* current.next() returned an item.
YieldItemDropsCursor(s) ==
    [s EXCEPT !.current = None, !.ret = << "Ok", Head(s.current[1]) >>]
YieldItem(s) ==
    [s EXCEPT !.current = Some(Tail(s.current[1])), !.ret = << "Ok", Head(s.current[1]) >>]

RECURSIVE ItemPollNext(_)
\* An extraction error that ends the session, as a fetch error does.
OnExtractErrEndsSession(o, x) ==
    CASE x[1] = "Ok" ->
            ItemPollNext([o EXCEPT !.current = Some(x[2]),
                                   !.extracts = Append(@, "ok")])
      [] x[1] = "Err" ->
            { [o EXCEPT !.ret = x, !.extracts = Append(@, "err"),
                        !.state = StateDone] }
      [] x[1] = "Pending" ->
            { [o EXCEPT !.ret = << "Pending" >>, !.extracts = Append(@, "pending")] }
\* An extraction error that leaves an (empty) cursor installed.
OnExtractErrInstallsCursor(o, x) ==
    CASE x[1] = "Ok" ->
            ItemPollNext([o EXCEPT !.current = Some(x[2]),
                                   !.extracts = Append(@, "ok")])
      [] x[1] = "Err" ->
            { [o EXCEPT !.ret = x, !.extracts = Append(@, "err"),
                        !.current = Some(<< >>)] }
      [] x[1] = "Pending" ->
            { [o EXCEPT !.ret = << "Pending" >>, !.extracts = Append(@, "pending")] }
\* A poll that stops at a page without items instead of looping on.
OnExtractStopsAtEmptyPage(o, x) ==
    CASE x[1] = "Ok" /\ x[2] = << >> ->
            { [o EXCEPT !.ret = << "None" >>, !.extracts = Append(@, "ok")] }
      [] x[1] = "Ok" /\ x[2] # << >> ->
            ItemPollNext([o EXCEPT !.current = Some(x[2]),
                                   !.extracts = Append(@, "ok")])
      [] x[1] = "Err" ->
            { [o EXCEPT !.ret = x, !.extracts = Append(@, "err")] }
      [] x[1] = "Pending" ->
            { [o EXCEPT !.ret = << "Pending" >>, !.extracts = Append(@, "pending")] }
\* The match on the poll of into_items.  The future is a temporary of the
\* match: when it is pending it is dropped, and the page with it.
OnExtract(o, x) ==
    CASE x[1] = "Ok" ->
            ItemPollNext([o EXCEPT !.current = Some(x[2]),
                                   !.extracts = Append(@, "ok")])
      [] x[1] = "Err" ->
            { [o EXCEPT !.ret = x, !.extracts = Append(@, "err")] }
      [] x[1] = "Pending" ->
            { [o EXCEPT !.ret = << "Pending" >>, !.extracts = Append(@, "pending")] }

\* A match that answers the stream's end with Pending.
OnStreamSwallowsEnd(o) ==
    IF o.ret[1] = "Ok"
    THEN UNION { OnExtract(o, x) : x \in ExtractOutcomes(o.ret[2]) }
    ELSE IF o.ret[1] = "None"
    THEN { [o EXCEPT !.ret = << "Pending" >>] }
    ELSE { o }
\* The match on the poll of the stream.
OnStream(o) ==
    IF o.ret[1] = "Ok"
    THEN UNION { OnExtract(o, x) : x \in ExtractOutcomes(o.ret[2]) }
    ELSE { o }

\* A loop that leaves the exhausted cursor in place when it polls the stream.
ItemPollNextKeepsCursor(s) ==
    IF s.current # None /\ s.current[1] # << >>
    THEN { YieldItem(s) }
    ELSE UNION { OnStream(o) : o \in StreamPollNext(s) }
\* The loop of poll_next: the set of outcomes of one call.
ItemPollNext(s) ==
    IF s.current # None /\ s.current[1] # << >>
    THEN { YieldItem(s) }
    ELSE UNION { OnStream(o) : o \in StreamPollNext([s EXCEPT !.current = None]) }

(***************************************************************************)
(* The consumer's steps.                                                   *)
(***************************************************************************)
Init ==
    /\ iter \in {"items", "pages"}
    /\ current = None
    /\ ust = "Value"
    /\ state = StateInit
    /\ calls = << >>
    /\ results = << >>
    /\ extracts = << >>
    /\ out = << >>
    /\ last = "Start"
    /\ ended = FALSE
    /\ tail = 0
    /\ dropped = FALSE
    /\ raw = << >>
    /\ taken = << >>
    /\ converted = None
    /\ response = None
    /\ header_name = ""
    /\ pager_result = None

\* The consumer receives what poll_next returned.
Return(o) ==
    /\ current' = o.current
    /\ ust' = o.ust
    /\ state' = o.state
    /\ calls' = o.calls
    /\ results' = o.results
    /\ extracts' = o.extracts
    /\ raw' = o.raw
    /\ taken' = o.taken
    /\ out' = IF o.ret[1] \in {"Ok", "Err"} THEN Append(out, o.ret) ELSE out
    /\ last' = o.ret[1]
    /\ ended' = (ended \/ o.ret[1] = "None")
    /\ tail' = IF ended THEN tail + 1 ELSE tail
    /\ UNCHANGED << iter, dropped, converted >>
    /\ UNCHANGED hvars

ItemIteratorPollNext ==
    /\ iter = "items"
    /\ ~dropped
    /\ ended => tail < MaxTail
    /\ \E o \in ItemPollNext(Self) : Return(o)

PageIteratorPollNext ==
    /\ iter = "pages"
    /\ ~dropped
    /\ ended => tail < MaxTail
    /\ \E o \in UnfoldPollNext(Self) : Return(o)

\* The consumer drops the iterator, at any point between two polls.  Neither
\* iterator nor the stream implements Drop: the fields are released (the
\* cursor, and the stream with its state or its in-flight future) and no
\* code of the engine runs.  No poll_next can follow: the value is gone.
DropFieldsDrainsStream(s) ==
    IF s.ust = "Value" /\ s.state.tag # "Done"
    THEN [s EXCEPT !.current = None, !.ust = "Gone",
                   !.calls = Append(@, CallbackArg(s.state))]
    ELSE [s EXCEPT !.current = None, !.ust = "Gone"]
DropFields(s) == [s EXCEPT !.current = None, !.ust = "Gone"]

Drop ==
    /\ ~dropped
    /\ dropped' = TRUE
    /\ LET o == DropFields(Self)
       IN  /\ current' = o.current
           /\ ust' = o.ust
           /\ state' = o.state
           /\ calls' = o.calls
           /\ results' = o.results
           /\ extracts' = o.extracts
    /\ UNCHANGED << iter, out, last, ended, tail, raw, taken, converted >>
    /\ UNCHANGED hvars

Next == ItemIteratorPollNext \/ PageIteratorPollNext \/ Drop

Spec == Init /\ [][Next]_vars

(***************************************************************************)
(* A session whose futures resolve and whose consumer keeps polling.       *)
(*                                                                         *)
(* A poll makes progress when the stream's future resolved in it or it     *)
(* returned something other than Pending.  The callback's futures resolve  *)
(* eventually and the consumer polls again after every Pending, so a poll  *)
(* that makes progress is eventually made.                                 *)
(***************************************************************************)
\* The consumer holds an ItemIterator and does nothing but poll it, until
\* a poll reports end-of-sequence.
InitLive == Init /\ iter = "items"

PollUntilEnd == ~ended /\ ItemIteratorPollNext

NextLive == PollUntilEnd

Progress ==
    /\ PollUntilEnd
    /\ results' # results \/ last' # "Pending"

FairSpec == InitLive /\ [][NextLive]_vars /\ WF_vars(Progress)

(***************************************************************************)
(* A session in which the consumer turns the ItemIterator into a           *)
(* PageIterator (into_pages) and polls that.                               *)
(***************************************************************************)

\* A conversion that hands over a stream started afresh.
IntoPagesRestartsStream(s) ==
    [s EXCEPT !.current = None, !.ust = "Value", !.state = StateInit]
\* PageIterator { stream: self.stream }: the stream is moved as it is, the
\* cursor is dropped with the rest of the ItemIterator.
IntoPagesFields(s) == [s EXCEPT !.current = None]

IntoPages ==
    /\ iter = "items"
    /\ ~dropped
    /\ ~ended
    /\ iter' = "pages"
    /\ converted' = Some([yielded |-> Len(out), fetched |-> Len(results),
                          left |-> IF current = None THEN << >> ELSE current[1]])
    /\ LET o == IntoPagesFields(Self)
       IN  /\ current' = o.current
           /\ ust' = o.ust
           /\ state' = o.state
           /\ calls' = o.calls
           /\ results' = o.results
           /\ extracts' = o.extracts
    /\ UNCHANGED << out, last, ended, tail, dropped, raw, taken >>
    /\ UNCHANGED hvars

InitIntoPages == Init /\ iter = "items"

NextIntoPages == ItemIteratorPollNext \/ IntoPages \/ PageIteratorPollNext

SpecIntoPages == InitIntoPages /\ [][NextIntoPages]_vars

(***************************************************************************)
(* An ItemIterator from a raw stream (from_stream), polled to its end.     *)
(***************************************************************************)
MaxRaw == 3

\* The elements of a raw stream: Ok(page) or Err(e).
RawElements == { << "Ok", p >> : p \in Pages } \cup { << "Err", e >> : e \in Errors }
RawStreams == UNION { [1..n -> RawElements] : n \in 0..MaxRaw }

InitStream ==
    /\ iter = "stream"
    /\ current = None
    /\ ust = "Raw"
    /\ state = StateInit
    /\ calls = << >>
    /\ results = << >>
    /\ extracts = << >>
    /\ out = << >>
    /\ last = "Start"
    /\ ended = FALSE
    /\ tail = 0
    /\ dropped = FALSE
    /\ raw \in RawStreams
    /\ taken = << >>
    /\ converted = None
    /\ response = None
    /\ header_name = ""
    /\ pager_result = None

\* A poll of the ItemIterator; the consumer stops at end-of-sequence (what
\* the raw stream does when polled after its end is the stream's own).
StreamItemIteratorPollNext ==
    /\ iter = "stream"
    /\ ~ended
    /\ \E o \in ItemPollNext(Self) : Return(o)

NextStream == StreamItemIteratorPollNext

SpecStream == InitStream /\ [][NextStream]_vars

(***************************************************************************)
(* PagerResult::from_response_header, applied to any response and name.    *)
(***************************************************************************)
HeaderNames == {"x-ms-continuation", "x-next", "etag"}
HeaderValues == {"tok", "tok2"}
Bodies == {"a", "b"}

\* A response: its headers, a map from some names to values, and its body.
HeaderMaps == UNION { [ns -> HeaderValues] : ns \in SUBSET HeaderNames }
Responses == [headers : HeaderMaps, body : Bodies]

\* Headers::get_optional_string: the value under the name, if there is one.
GetOptionalString(headers, name) ==
    IF name \in DOMAIN headers THEN Some(headers[name]) ELSE None

\* A construction that takes the continuation from any header there is.
FromResponseHeaderOfAnyHeader(resp, name) ==
    IF DOMAIN resp.headers # {}
    THEN OkMore(resp, resp.headers[CHOOSE n \in DOMAIN resp.headers : TRUE])
    ELSE OkDone(resp)
FromResponseHeader(resp, name) ==
    LET next == GetOptionalString(resp.headers, name)
    IN  IF next # None THEN OkMore(resp, next[1]) ELSE OkDone(resp)

InitHeader ==
    /\ iter = "pages"
    /\ current = None
    /\ ust = "Value"
    /\ state = StateInit
    /\ calls = << >>
    /\ results = << >>
    /\ extracts = << >>
    /\ out = << >>
    /\ last = "Start"
    /\ ended = FALSE
    /\ tail = 0
    /\ dropped = FALSE
    /\ raw = << >>
    /\ taken = << >>
    /\ converted = None
    /\ response \in Responses
    /\ header_name \in HeaderNames
    /\ pager_result = None

CallFromResponseHeader ==
    /\ pager_result = None
    /\ pager_result' = Some(FromResponseHeader(response, header_name))
    /\ UNCHANGED << iter, current, ust, state, calls, results, extracts, out, last,
                    ended, tail, dropped, raw, taken, converted, response,
                    header_name >>

NextHeader == CallFromResponseHeader

SpecHeader == InitHeader /\ [][NextHeader]_vars


(***************************************************************************)
(* What the properties speak of.                                           *)
(***************************************************************************)

\* The page of the i-th result (which is not an error).
PageOf(i) == results[i].response[1]

\* The items of the pages of results 1..n, concatenated.
RECURSIVE ItemsOfPages(_)
ItemsOfPages(n) == IF n = 0 THEN << >> ELSE ItemsOfPages(n - 1) \o PageOf(n).items

\* Each value of a sequence as an Ok element.
OkEach(s) == [i \in 1..Len(s) |-> << "Ok", s[i] >>]

\* The values of the Ok elements of a sequence of elements, in order.
IsOk(x) == x[1] = "Ok"
OkValues(s) == LET oks == SelectSeq(s, IsOk) IN [i \in 1..Len(oks) |-> oks[i][2]]

\* The last n values of a sequence.
Suffix(s, n) == SubSeq(s, Len(s) - n + 1, Len(s))

\* No fetch failed so far; every into_items polled so far was ready with Ok.
NoFetchError == \A i \in DOMAIN results : results[i].kind # "Err"
EveryExtractionOk == \A i \in DOMAIN extracts : extracts[i] = "ok"

\* No page was lost to an into_items future dropped while pending.
NoExtractionDropped == \A i \in DOMAIN extracts : extracts[i] # "pending"

\* The consumer has been handed a fetch error.
FetchErrorYielded == \E i \in DOMAIN out : out[i][1] = "Err" /\ out[i][2] \in Errors

C2_NoCallAfterDone ==
    \A i \in DOMAIN results :
        (results[i].kind = "Done" /\ \A k \in 1..(i - 1) : results[k].kind = "More")
            => Len(calls) = i

C2_Witness ==
    /\ Len(results) = 3
    /\ results[3].kind = "Done"
    /\ Len(calls) = 3
    /\ ended /\ tail = 2

(***************************************************************************)
(* C3.  When the callback's j-th invocation fails, there are j invocations *)
(* in all, the ItemIterator has yielded that error once, as its latest     *)
(* element, and the items yielded before it are the items of pages         *)
(* 1..j-1, in order.                                                       *)
(***************************************************************************)
C3_ItemsThenFetchError ==
    iter = "items" =>
        \A j \in DOMAIN results :
            results[j].kind = "Err" =>
                /\ Len(calls) = j
                /\ Len(out) >= 1
                /\ out[Len(out)] = << "Err", results[j].err[1] >>
                /\ Cardinality({ i \in DOMAIN out : out[i][1] = "Err" /\ out[i][2] \in Errors }) = 1
                /\ OkValues(out) = ItemsOfPages(j - 1)

\* C3 in the runs in which no into_items future was dropped while pending:
\* there the invariant of C3 holds.
C3_WhenNoExtractionIsDropped == NoExtractionDropped => C3_ItemsThenFetchError

(***************************************************************************)
(* C4.  The argument of invocation i+1 is the continuation of the More     *)
(* result of invocation i.                                                 *)
(***************************************************************************)
C4_ContinuationIsThreaded ==
    \A i \in 1..(Len(calls) - 1) :
        /\ i <= Len(results)
        /\ results[i].kind = "More"
        /\ calls[i + 1] = results[i].next

C4_Witness ==
    /\ Len(calls) = 3
    /\ calls[2] = Some("2")
    /\ calls[3] = Some("1")

(***************************************************************************)
(* C5.  The callback's argument is None at its first invocation and at no  *)
(* other.                                                                  *)
(***************************************************************************)
C5_NoneOnlyAtFirstCall ==
    \A i \in DOMAIN calls : (calls[i] = None) <=> (i = 1)

C5_Witness ==
    /\ Len(calls) = 3
    /\ calls[1] = None
    /\ calls[2] = Some("1")
    /\ calls[3] = Some("1")

C8_PagesThenError ==
    iter = "pages" =>
        \A j \in DOMAIN results :
            results[j].kind = "Err" =>
                /\ Len(out) = j
                /\ \A i \in 1..(j - 1) :
                       results[i].kind = "More" /\ out[i] = << "Ok", PageOf(i) >>
                /\ out[j] = << "Err", results[j].err[1] >>

C8_Witness ==
    /\ iter = "pages"
    /\ Len(results) = 3
    /\ results[3].kind = "Err"
    /\ Len(out) = 3
    /\ ended /\ tail = 1

(***************************************************************************)
(* C9.  A PageIterator has produced one element for each result of the     *)
(* callback, in the order of the invocations, and its i-th Ok element is   *)
(* the very page of the i-th result.                                       *)
(***************************************************************************)
C9_PagesAreTheCallbacksPages ==
    iter = "pages" =>
        /\ Len(out) = Len(results)
        /\ \A i \in DOMAIN out :
               IF results[i].kind = "Err"
               THEN out[i][1] = "Err"
               ELSE out[i][1] = "Ok" /\ out[i][2] = PageOf(i)

C9_Witness ==
    /\ iter = "pages"
    /\ ended
    /\ Len(out) = 3
    /\ out[1] = << "Ok", [ok |-> TRUE, items |-> << 1, 2 >>] >>
    /\ out[2] = << "Ok", [ok |-> TRUE, items |-> << >>] >>
    /\ out[3] = << "Ok", [ok |-> TRUE, items |-> << 2, 1 >>] >>

(***************************************************************************)
(* C10.  When the callback returns Done with a page, the callback is not   *)
(* invoked again, and when end-of-sequence is reported that page has been  *)
(* delivered: by a PageIterator as its latest element, by an ItemIterator  *)
(* as the latest items it yielded.                                         *)
(***************************************************************************)
C10_TerminalPageIsDelivered ==
    \A i \in DOMAIN results :
        results[i].kind = "Done" =>
            /\ Len(calls) = i
            /\ ended =>
                  IF iter = "pages"
                  THEN Len(out) >= 1 /\ out[Len(out)] = << "Ok", PageOf(i) >>
                  ELSE LET yielded == OkValues(out)
                           n == Len(PageOf(i).items)
                       IN  Len(yielded) >= n /\ Suffix(yielded, n) = PageOf(i).items

\* C10 in the runs in which no into_items future was dropped while pending:
\* there the invariant of C10 holds.
C10_WhenNoExtractionIsDropped == NoExtractionDropped => C10_TerminalPageIsDelivered

\* The latest poll yielded the extraction error of the latest page fetched.
ExtractErrorJustYielded ==
    /\ iter = "items" /\ ~dropped
    /\ last = "Err"
    /\ out[Len(out)] = << "Err", ExtractError >>

\* The extraction errors yielded, and the extractions that failed.
ExtractErrorsYielded == { i \in DOMAIN out : out[i] = << "Err", ExtractError >> }
ExtractionsFailed == { k \in DOMAIN extracts : extracts[k] = "err" }

(***************************************************************************)
(* C11.  When the extraction of a page that came with More fails, the      *)
(* ItemIterator yields the error once, after the elements it had already   *)
(* yielded; the driver keeps State::More with the continuation that came   *)
(* with the page and no cursor is installed; and the next poll invokes the *)
(* callback with that continuation and, when that fetch gives a page whose *)
(* extraction succeeds with items, yields the first of them and buffers    *)
(* the rest.                                                               *)
(***************************************************************************)
C11_ExtractErrorOfNonTerminalPage ==
    [][ (ExtractErrorJustYielded /\ results[Len(results)].kind = "More")
            => LET n == Len(results)
               IN  /\ Cardinality(ExtractErrorsYielded) = Cardinality(ExtractionsFailed)
                   /\ state = StateMore(results[n].next[1])
                   /\ ust = "Value"
                   /\ current = None
                   /\ ~dropped' =>
                         /\ Len(calls') > Len(calls)
                         /\ calls'[Len(calls) + 1] = results[n].next
                         /\ SubSeq(out', 1, Len(out)) = out
                         /\ (/\ Len(results') > n
                             /\ results'[n + 1].kind # "Err"
                             /\ extracts'[n + 1] = "ok"
                             /\ results'[n + 1].response[1].items # << >>)
                               => LET items == results'[n + 1].response[1].items
                                  IN  /\ out' = Append(out, << "Ok", Head(items) >>)
                                      /\ current' = Some(Tail(items)) ]_vars

C11_Witness ==
    /\ iter = "items"
    /\ Len(results) = 3
    /\ ~PageOf(2).ok
    /\ calls[3] = results[2].next
    /\ out = << << "Ok", 1 >>, << "Err", ExtractError >>, << "Ok", 2 >> >>
    /\ current = Some(<< 1 >>)

(***************************************************************************)
(* C12.  When the extraction of the page that came with Done fails, the    *)
(* ItemIterator yields the error once and installs no cursor, and the next *)
(* poll reports end-of-sequence without invoking the callback.             *)
(***************************************************************************)
C12_ExtractErrorOfTerminalPage ==
    [][ (ExtractErrorJustYielded /\ results[Len(results)].kind = "Done")
            => /\ Cardinality(ExtractErrorsYielded) = Cardinality(ExtractionsFailed)
               /\ current = None
               /\ ~dropped' =>
                     /\ last' = "None"
                     /\ calls' = calls
                     /\ out' = out ]_vars

C12_Witness ==
    /\ iter = "items" /\ ~dropped
    /\ Len(results) = 2
    /\ results[2].kind = "Done"
    /\ ~PageOf(2).ok
    /\ out = << << "Ok", 1 >>, << "Err", ExtractError >> >>
    /\ last = "None"
    /\ Len(calls) = 2

(***************************************************************************)
(* C13.  A poll of the ItemIterator that receives a page without items     *)
(* yields nothing for it and does not end the sequence on its account: it  *)
(* polls the stream again in the same call, so that after a More page the  *)
(* callback is invoked for the next page, and after the Done page the      *)
(* stream itself reports the end.  An item the poll yields is the first    *)
(* item of the latest page fetched, and end-of-sequence is reported only   *)
(* when the stream reported it.                                            *)
(***************************************************************************)
C13_EmptyPagesAreSkipped ==
    [][ (iter = "items" /\ ~dropped')
            => /\ \A i \in (Len(results) + 1)..Len(results') :
                      (/\ results'[i].kind # "Err"
                       /\ results'[i].response[1].ok
                       /\ results'[i].response[1].items = << >>)
                          => IF extracts'[i] = "pending"
                             THEN last' = "Pending" /\ out' = out
                             ELSE IF results'[i].kind = "More"
                             THEN Len(calls') > i
                             ELSE last' = "None"
               /\ (last' = "Ok" /\ Len(results') > Len(results))
                      => LET items == results'[Len(results')].response[1].items
                         IN  items # << >> /\ out' = Append(out, << "Ok", Head(items) >>)
               /\ (last' = "None")
                      => /\ ust' = "Empty"
                         /\ state'.tag = "Done"
                         /\ results'[Len(results')].kind \in {"Done", "Err"} ]_vars

C13_Witness ==
    /\ iter = "items"
    /\ Len(results) = 3
    /\ extracts = << "ok", "ok", "ok" >>
    /\ PageOf(1).items = << >>
    /\ PageOf(2).items = << >>
    /\ PageOf(3).items = << 1, 2 >>
    /\ out = << << "Ok", 1 >> >>
    /\ last = "Ok"

(***************************************************************************)
(* C14.  Dropping an ItemIterator invokes the callback no more: the drop   *)
(* itself leaves the sequence of invocations as it was, whether items are  *)
(* buffered or a fetch is in flight, and nothing changes it afterwards.    *)
(***************************************************************************)
C14_NoCallAfterDrop ==
    [][ (iter = "items" /\ dropped') => calls' = calls ]_vars

C14_Witness ==
    /\ iter = "items"
    /\ dropped
    /\ ust = "Gone"
    /\ out = << << "Ok", 1 >> >>
    /\ Len(results) = 1
    /\ results[1].kind = "More"
    /\ Len(calls) = 2

(***************************************************************************)
(* C15.  from_response_header returns More, with the header's value as     *)
(* the continuation, when the response has a header of the given name, and *)
(* Done when it has none; either way the result carries the response it    *)
(* was given.                                                              *)
(***************************************************************************)
C15_FromResponseHeader ==
    pager_result # None
        => LET r == pager_result[1]
           IN  /\ r.response = Some(response)
               /\ r.err = None
               /\ header_name \in DOMAIN response.headers
                      => r.kind = "More" /\ r.next = Some(response.headers[header_name])
               /\ header_name \notin DOMAIN response.headers
                      => r.kind = "Done" /\ r.next = None

C15_Witness ==
    /\ pager_result # None
    /\ pager_result[1].kind = "More"
    /\ pager_result[1].next = Some("tok")
    /\ header_name = "x-next"
    /\ DOMAIN response.headers = {"x-next", "etag"}
    /\ response.headers["etag"] = "tok2"

(***************************************************************************)
(* C16.  At most one callback invocation is outstanding: between polls the *)
(* invocations made exceed the futures resolved by one when the stream     *)
(* holds a pending future, and by none otherwise.  (Within a poll, an      *)
(* invocation is made only from the stream's value, which the stream holds *)
(* only once the previous future has resolved.)                            *)
(***************************************************************************)
C16_OneOutstandingCall ==
    /\ Len(calls) - Len(results) \in {0, 1}
    /\ ust = "Future" => Len(calls) = Len(results) + 1
    /\ ust \in {"Value", "Empty"} => Len(calls) = Len(results)

C16_Witness ==
    /\ iter = "items"
    /\ ~dropped
    /\ ust = "Future"
    /\ last = "Pending"
    /\ Len(calls) = 3
    /\ Len(results) = 2
    /\ extracts = << "pending", "ok" >>
    /\ PageOf(2).items = << >>

(***************************************************************************)
(* C17.  An extraction that reports pending is resumed by a later poll, so *)
(* that no fetched page is lost: once the callback has been invoked for    *)
(* the page after page i, or the sequence has ended, the items of pages    *)
(* 1..i have all been yielded, in order, before any later item.            *)
(***************************************************************************)
C17_PendingExtractionIsResumed ==
    iter = "items"
        => \A i \in DOMAIN extracts :
              (Len(calls) > i \/ ended)
                  => LET want == ItemsOfPages(i)
                         got == OkValues(out)
                     IN  Len(got) >= Len(want) /\ SubSeq(got, 1, Len(want)) = want

\* The same, of the sessions in which no extraction reported pending.
C17_WhenNoExtractionIsDropped ==
    NoExtractionDropped => C17_PendingExtractionIsResumed

(***************************************************************************)
(* C18.  The PageIterator is lazy, with one fetch per element: before the  *)
(* first poll the callback has not been invoked; a poll invokes it at most *)
(* once; every resolved fetch is one element handed to the consumer, so    *)
(* that the invocations are the elements produced plus the one fetch in    *)
(* flight, if the stream holds a pending future; and once a fetch error    *)
(* has been produced the callback is not invoked again.                    *)
(***************************************************************************)
C18_OneFetchPerPage ==
    [][ iter = "pages"
            => /\ last = "Start" => calls = << >>
               /\ Len(calls') <= Len(calls) + 1
               /\ Len(out') = Len(results')
               /\ Len(calls') - Len(out') \in {0, 1}
               /\ ~dropped' => (Len(calls') = Len(out') + 1 <=> ust' = "Future")
               /\ FetchErrorYielded => calls' = calls ]_vars

C18_Witness ==
    /\ iter = "pages"
    /\ ~dropped
    /\ Len(out) = 2
    /\ Len(calls) = 3
    /\ ust = "Future"
    /\ last = "Pending"

\* The items of the pages of the first n results of rs, concatenated.
RECURSIVE ItemsOfResults(_, _)
ItemsOfResults(rs, n) ==
    IF n = 0 THEN << >> ELSE ItemsOfResults(rs, n - 1) \o rs[n].response[1].items

\* A poll of the ItemIterator invokes the callback only with no item left in
\* the cursor, and the cursor holds what is left of the latest page only.
FetchOnlyWithEmptyCursor ==
    /\ calls' # calls => current \in {None, Some(<< >>)}
    /\ (current # None /\ current[1] # << >>)
           => /\ Len(calls) = Len(results)
              /\ LET items == PageOf(Len(results)).items
                 IN  current[1] = Suffix(items, Len(current[1]))

\* Every invocation a poll makes comes after every item of the pages before
\* it has been yielded.
FetchAfterPageIsYielded ==
    \A k \in (Len(calls) + 1)..Len(calls') :
        OkValues(out) = ItemsOfResults(results', k - 1)

\* The part of C19 that is about the cursor alone.
C19_FetchOnlyWithEmptyCursor ==
    [][ iter = "items" => FetchOnlyWithEmptyCursor ]_vars

(***************************************************************************)
(* C19.  The ItemIterator fetches only with no buffered item, and the      *)
(* callback is invoked for page i+1 only by a poll made after every item   *)
(* of pages 1..i has been yielded; the cursor holds what is left of the    *)
(* latest page only.                                                       *)
(***************************************************************************)
C19_FetchAfterPageIsYielded ==
    [][ iter = "items" => (FetchOnlyWithEmptyCursor /\ FetchAfterPageIsYielded) ]_vars

\* The same, of the sessions in which no extraction reported pending.
C19_WhenNoExtractionIsDropped ==
    [][ (iter = "items" /\ NoExtractionDropped')
            => (FetchOnlyWithEmptyCursor /\ FetchAfterPageIsYielded) ]_vars

(***************************************************************************)
(* C20.  The driver's state moves only from Init or More, and only to More *)
(* or Done.  In Done it stays: the state does not change, the callback is  *)
(* not invoked and the stream produces no page and no error.  The state is *)
(* Done exactly when the latest result of the callback is Done or an       *)
(* error, More(c) exactly when it is More with continuation c, and Init    *)
(* exactly when the callback has not returned yet.                         *)
(***************************************************************************)
C20_StateTransitions ==
    [][ /\ state' # state
               => state.tag \in {"Init", "More"} /\ state'.tag \in {"More", "Done"}
        /\ state.tag = "Done"
               => /\ state' = state
                  /\ calls' = calls
                  /\ results' = results
                  /\ iter = "pages" => out' = out
        /\ state'.tag = "Done"
               <=> (results' # << >> /\ results'[Len(results')].kind \in {"Done", "Err"})
        /\ state'.tag = "More"
               => state' = StateMore(results'[Len(results')].next[1])
        /\ state'.tag = "Init" <=> results' = << >> ]_vars

C20_Witness ==
    /\ iter = "pages"
    /\ state = StateDone
    /\ Len(results) = 3
    /\ results[1].kind = "More"
    /\ results[2].kind = "More"
    /\ results[3].kind = "Err"
    /\ last = "Panic"
    /\ tail = 2
    /\ Len(calls) = 3
    /\ Len(out) = 3

(***************************************************************************)
(* C21.  The item sequence is finite: when every future resolves in the    *)
(* end and the consumer keeps polling the ItemIterator, a poll eventually  *)
(* reports end-of-sequence.                                                *)
(***************************************************************************)
C21_EndOfSequenceIsReached ==
    <>ended

C21_Witness ==
    /\ iter = "items"
    /\ ~dropped
    /\ ended
    /\ last = "None"
    /\ Len(results) = 3
    /\ results[3].kind = "Done"
    /\ extracts = << "ok", "pending", "ok" >>
    /\ Len(out) = 3

(***************************************************************************)
(* C22.  When a poll of the ItemIterator has reported end-of-sequence, the *)
(* cursor is absent and the stream itself has ended: the driver's state is *)
(* Done, it holds no continuation and no fetch is in flight.               *)
(***************************************************************************)
C22_EndOnlyWhenDriverEnded ==
    (iter = "items" /\ last = "None" /\ ~dropped)
        => /\ current = None
           /\ ust = "Empty"
           /\ state = StateDone
           /\ Len(calls) = Len(results)
           /\ results # << >> /\ results[Len(results)].kind \in {"Done", "Err"}

C22_Witness ==
    /\ iter = "items"
    /\ last = "None"
    /\ ~dropped
    /\ Len(results) = 2
    /\ results[2].kind = "Done"
    /\ PageOf(2).items = << 1, 2 >>
    /\ extracts = << "ok", "ok" >>
    /\ out = << << "Ok", 2 >>, << "Ok", 1 >>, << "Ok", 1 >>, << "Ok", 2 >> >>

\* What an ItemIterator is to yield for a sequence of raw elements: an Err
\* as itself, the items of a page in order, the error of a page whose
\* extraction fails.
RECURSIVE Flatten(_)
Flatten(es) ==
    IF es = << >> THEN << >>
    ELSE LET e == Head(es)
         IN  (IF e[1] = "Err" THEN << e >>
              ELSE IF e[2].ok THEN OkEach(e[2].items)
              ELSE << << "Err", ExtractError >> >>) \o Flatten(Tail(es))

\* The items left in the cursor, as the elements they will be yielded as.
Buffered == IF current = None THEN << >> ELSE OkEach(current[1])

(***************************************************************************)
(* C23.  An ItemIterator from a raw stream yields, in order, the items of  *)
(* each Ok(page) the stream produced and each Err as itself, and goes on   *)
(* after an Err: what it has yielded, with the items still in the cursor,  *)
(* is at every moment what the elements produced so far amount to.         *)
(***************************************************************************)
C23_RawElementsAreYielded ==
    iter = "stream" => out \o Buffered = Flatten(taken)

\* The same, of the sessions in which no extraction reported pending.
C23_WhenNoExtractionIsDropped ==
    NoExtractionDropped => C23_RawElementsAreYielded

\* An Err of the raw stream followed by a page: both were yielded.
C23_ItemsAfterErr ==
    /\ iter = "stream"
    /\ ended
    /\ taken = << << "Ok", [ok |-> TRUE, items |-> << 1 >>] >>, << "Err", "boom" >>,
                  << "Ok", [ok |-> TRUE, items |-> << 2, 1 >>] >> >>
    /\ out = << << "Ok", 1 >>, << "Err", "boom" >>, << "Ok", 2 >>, << "Ok", 1 >> >>

\* into_pages itself touches neither the stream nor its state, invokes
\* nothing and yields nothing; the cursor is gone.
IntoPagesFrame ==
    /\ state' = state
    /\ ust' = ust
    /\ calls' = calls
    /\ results' = results
    /\ out' = out
    /\ current' = None

\* What the PageIterator got by into_pages has produced: the pages (or the
\* error) of the fetches resolved after the call, each fetch invoked with the
\* continuation of the page before it; nothing, and no fetch, when the page
\* before the call was the last.
AfterIntoPages ==
    converted # None
        => LET k == converted[1].yielded
               i == converted[1].fetched
           IN  /\ Len(out) - k = Len(results) - i
               /\ \A j \in 1..(Len(out) - k) : out[k + j] = StreamItem(results[i + j])
               /\ \A n \in (i + 1)..Len(calls) :
                      n > 1 => results[n - 1].kind = "More" /\ calls[n] = results[n - 1].next
               /\ (i >= 1 /\ results[i].kind \in {"Done", "Err"})
                      => Len(calls) = i /\ Len(out) = k

(***************************************************************************)
(* C24.  into_pages leaves the driver as it is and discards the cursor:    *)
(* the PageIterator's first element is the page after the last one the     *)
(* ItemIterator fetched, fetched with that page's continuation (so that    *)
(* page is not fetched again), or end-of-sequence when that page was the   *)
(* last; the items left in the cursor are never delivered, every element   *)
(* after the call being a page or a fetch error.                           *)
(***************************************************************************)
C24_IntoPagesDiscardsCursor ==
    [][ /\ (iter = "items" /\ iter' = "pages") => IntoPagesFrame
        /\ AfterIntoPages'
        /\ (/\ iter = "pages" /\ converted # None /\ ~ended
            /\ converted[1].fetched >= 1
            /\ results[converted[1].fetched].kind \in {"Done", "Err"})
               => (iter' = "pages" => last' = "None") ]_vars

C24_Witness ==
    /\ iter = "pages"
    /\ converted # None
    /\ converted[1].yielded = 1
    /\ converted[1].fetched = 1
    /\ converted[1].left = << 1 >>
    /\ out = << << "Ok", 2 >>, << "Ok", [ok |-> TRUE, items |-> << 1, 2 >>] >> >>
    /\ calls = << None, Some("1") >>

\* What the ItemIterator is to have yielded, or to hold in its cursor, for
\* the results the callback gave and the outcomes of the extractions: the
\* items of a page extracted, the error of a page whose extraction failed,
\* nothing of a page whose extraction was dropped; then the fetch error.
RECURSIVE ExpectedOfPages(_, _, _)
ExpectedOfPages(rs, xs, n) ==
    IF n = 0 THEN << >>
    ELSE ExpectedOfPages(rs, xs, n - 1)
            \o (CASE xs[n] = "ok" -> OkEach(rs[n].response[1].items)
                  [] xs[n] = "err" -> << << "Err", ExtractError >> >>
                  [] xs[n] = "pending" -> << >>)
ExpectedOut(rs, xs) ==
    ExpectedOfPages(rs, xs, Len(xs))
        \o (IF rs # << >> /\ rs[Len(rs)].kind = "Err"
            THEN << << "Err", rs[Len(rs)].err[1] >> >> ELSE << >>)

\* The arguments the callback is to have received for the results it gave.
ExpectedCalls ==
    /\ Len(calls) - Len(results) \in {0, 1}
    /\ \A n \in DOMAIN calls : calls[n] = IF n = 1 THEN None ELSE results[n - 1].next

\* What is yielded and what the callback receives does not depend on how
\* often a fetch was pending: both are determined by the callback's results
\* and the outcomes of the extractions.
TimingIndependent ==
    /\ out \o Buffered = ExpectedOut(results, extracts)
    /\ ExpectedCalls

NoItemBuffered == current = None \/ current[1] = << >>

(***************************************************************************)
(* C25, as claimed.  What the ItemIterator yields and what the callback    *)
(* receives is independent of fetch timing, and a poll that returns        *)
(* Pending leaves the cursor and the number of invocations unchanged.      *)
(***************************************************************************)
C25_PendingChangesNothing ==
    [][ (iter = "items" /\ ~dropped')
            => /\ TimingIndependent'
               /\ last' = "Pending" => (current' = current /\ Len(calls') = Len(calls)) ]_vars

(***************************************************************************)
(* C25, amended.  What the ItemIterator yields and what the callback       *)
(* receives is independent of fetch timing.  A poll that returns Pending   *)
(* yields nothing and finds and leaves no item in the cursor, and ends     *)
(* with a fetch in flight or an extraction pending; it leaves the          *)
(* invocations unchanged exactly when it only polled the fetch already in  *)
(* flight (which stayed pending, or resolved to a page whose extraction    *)
(* is pending), and otherwise has invoked the callback.                    *)
(***************************************************************************)
C25_TimingIndependence ==
    [][ (iter = "items" /\ ~dropped')
            => /\ TimingIndependent'
               /\ last' = "Pending"
                      => /\ out' = out
                         /\ NoItemBuffered /\ current' = None
                         /\ \/ ust' = "Future"
                            \/ extracts' # << >> /\ extracts'[Len(extracts')] = "pending"
                         /\ calls' = calls
                                <=> /\ ust = "Future"
                                    /\ \/ results' = results
                                       \/ /\ Len(results') = Len(results) + 1
                                          /\ extracts'[Len(extracts')] = "pending"
                         /\ SubSeq(calls', 1, Len(calls)) = calls ]_vars

C25_Witness ==
    /\ iter = "items"
    /\ ~dropped
    /\ last = "Pending"
    /\ ust = "Future"
    /\ Len(calls) = 3
    /\ Len(results) = 2
    /\ PageOf(1).items = << 1 >>
    /\ PageOf(2).items = << >>
    /\ extracts = << "ok", "ok" >>
    /\ out = << << "Ok", 1 >> >>

=============================================================================
